---- MODULE Spec2Model ----
(***************************************************************************)
(* rot-detector: the health scorer (analyzer/health-scorer.ts), the values *)
(* it consumes (types/index.ts, clients/github-client.ts), the risk levels *)
(* (types/index.ts) and the scan command (cli/index.ts) with its parsers,  *)
(* clients and reporter.                                                   *)
(*                                                                         *)
(* JavaScript values are tagged records, so that null, undefined, NaN,     *)
(* numbers, strings and objects stay distinct:                             *)
(*   Null, Undefined, NaN, Num(n), Bool(b), Str(<<chars>>), DateOf(time).  *)
(* A string is a sequence of one-character strings.  A Date is its         *)
(* getTime() value, Num(t) or NaN (an Invalid Date).  Time values are      *)
(* counted in whole seconds instead of milliseconds (TLC integers have 32  *)
(* bits); floor(floor(x / 1000) / 86400) = floor(x / 86400000), so the     *)
(* day count the scorer derives is the same.                               *)
(***************************************************************************)
EXTENDS Integers, Sequences, FiniteSets, TLC

VARIABLES
    metadata, githubHealth, now, health, pc,  \* a call of the scorer; the locals of runScan's loop body
    score, risk,                              \* a call of getRiskLevel
    inputPath, options,                       \* the arguments of runScan
    dependencies, index, analyses, summary,   \* the locals of runScan (index is its i)
    calls,                                    \* the fetches made so far, with what they answered
    output, exitCode                          \* what was printed, and the exit status of the process

riskVars == <<score, risk>>

scanVars == <<inputPath, options, dependencies, index, analyses, summary, calls, output, exitCode>>

vars == <<metadata, githubHealth, now, health, pc, riskVars, scanVars>>

(***************************************************************************)
(* JavaScript values                                                       *)
(***************************************************************************)
Null == [type |-> "null"]

Undefined == [type |-> "undefined"]

NaN == [type |-> "NaN"]

Num(n) == [type |-> "number", value |-> n]

Str(s) == [type |-> "string", chars |-> s]

Bool(b) == [type |-> "boolean", value |-> b]

DateOf(t) == [type |-> "Date", time |-> t]

\* !v for the values the scorer tests: null, undefined and "" are falsy,
\* every object (a Date, also an Invalid Date) is truthy.
Falsy(v) ==
    \/ v.type = "null"
    \/ v.type = "undefined"
    \/ v.type = "NaN"
    \/ (v.type = "boolean" /\ ~v.value)
    \/ (v.type = "number" /\ v.value = 0)
    \/ (v.type = "string" /\ v.chars = <<>>)

(***************************************************************************)
(* IEEE 754 binary64 arithmetic, as far as the weighted sum needs it.      *)
(* Every value of that sum is a non-negative multiple of 2^-54, so a       *)
(* double x is the natural number x * 2^54, written in limbs of LimbBits   *)
(* bits, least significant first, without leading zero limbs (<<>> is 0).  *)
(***************************************************************************)
F64Scale == 54

F64Precision == 53

LimbBits == 20

Base == 2 ^ LimbBits

RECURSIVE NatToLimbs(_)
NatToLimbs(n) == IF n = 0 THEN <<>> ELSE <<n % Base>> \o NatToLimbs(n \div Base)

RECURSIVE LimbsToNat(_)
LimbsToNat(a) == IF a = <<>> THEN 0 ELSE a[1] + Base * LimbsToNat(Tail(a))

\* a without its leading (most significant, last) zero limbs
RECURSIVE Trim(_)
Trim(a) ==
    IF a = <<>> THEN <<>>
    ELSE IF a[Len(a)] = 0 THEN Trim(SubSeq(a, 1, Len(a) - 1))
    ELSE a

\* 2^k
Pow2Limbs(k) == [i \in 1..(k \div LimbBits) |-> 0] \o <<2 ^ (k % LimbBits)>>

\* bit i (from 0) of a
Bit(a, i) ==
    IF i \div LimbBits + 1 > Len(a) THEN 0
    ELSE (a[i \div LimbBits + 1] \div (2 ^ (i % LimbBits))) % 2

RECURSIVE SmallBitLen(_)
SmallBitLen(n) == IF n = 0 THEN 0 ELSE 1 + SmallBitLen(n \div 2)

\* the number of significant bits of a
BitLen(a) ==
    IF a = <<>> THEN 0 ELSE LimbBits * (Len(a) - 1) + SmallBitLen(a[Len(a)])

\* a + b + c for a carry c
RECURSIVE LimbsAddC(_, _, _)
LimbsAddC(a, b, c) ==
    IF a = <<>> /\ b = <<>> THEN NatToLimbs(c)
    ELSE LET x == IF a = <<>> THEN 0 ELSE a[1]
             y == IF b = <<>> THEN 0 ELSE b[1]
             s == x + y + c
         IN  <<s % Base>> \o LimbsAddC(IF a = <<>> THEN <<>> ELSE Tail(a),
                                       IF b = <<>> THEN <<>> ELSE Tail(b),
                                       s \div Base)

LimbsAdd(a, b) == Trim(LimbsAddC(a, b, 0))

\* n * a + c for a small natural n and a carry c
RECURSIVE LimbsMulC(_, _, _)
LimbsMulC(n, a, c) ==
    IF a = <<>> THEN NatToLimbs(c)
    ELSE LET s == n * a[1] + c
         IN  <<s % Base>> \o LimbsMulC(n, Tail(a), s \div Base)

LimbsMul(n, a) == Trim(LimbsMulC(n, a, 0))

\* floor(a / d) and a mod d for a small natural d > 0, from the most
\* significant limb down; r is the running remainder
RECURSIVE LimbsDivR(_, _, _)
LimbsDivR(a, d, r) ==
    IF a = <<>> THEN [quot |-> <<>>, rem |-> r]
    ELSE LET cur  == Base * r + a[Len(a)]
             rest == LimbsDivR(SubSeq(a, 1, Len(a) - 1), d, cur % d)
         IN  [quot |-> rest.quot \o <<cur \div d>>, rem |-> rest.rem]

LimbsDiv(a, d) ==
    LET r == LimbsDivR(a, d, 0) IN [quot |-> Trim(r.quot), rem |-> r.rem]

\* floor(a / 2^s)
ShiftRight(a, s) ==
    LET k == s \div LimbBits
        j == s % LimbBits
        at(i) == IF i > Len(a) THEN 0 ELSE a[i]
    IN  IF k >= Len(a) THEN <<>>
        ELSE Trim([i \in 1..(Len(a) - k) |->
                     at(i + k) \div (2 ^ j)
                     + (at(i + k + 1) % (2 ^ j)) * (2 ^ (LimbBits - j))])

\* a with its s least significant bits cleared
ClearLow(a, s) ==
    LET k == s \div LimbBits
        j == s % LimbBits
    IN  Trim([i \in 1..Len(a) |->
                IF i <= k THEN 0
                ELSE IF i = k + 1 THEN (a[i] \div (2 ^ j)) * (2 ^ j)
                ELSE a[i]])

\* Round to nearest, ties to even, at F64Precision significant bits.
F64Round(a) ==
    IF BitLen(a) <= F64Precision THEN a
    ELSE LET s     == BitLen(a) - F64Precision
             low   == \E i \in 0..(s - 2) : Bit(a, i) = 1
             above == Bit(a, s - 1) = 1 /\ low
             tie   == Bit(a, s - 1) = 1 /\ ~low
             up    == above \/ (tie /\ Bit(a, s) = 1)
         IN  IF up THEN LimbsAdd(ClearLow(a, s), Pow2Limbs(s))
             ELSE ClearLow(a, s)

\* The double nearest to num / den (a decimal literal such as 0.40 = 40/100),
\* for 1/4 <= num/den < 1/2, where the quotient at scale 2^-54 has 53 bits.
F64Literal(num, den) ==
    LET d  == LimbsDiv(LimbsMul(num, Pow2Limbs(F64Scale)), den)
        up == 2 * d.rem > den \/ (2 * d.rem = den /\ Bit(d.quot, 0) = 1)
    IN  F64Round(IF up THEN LimbsAdd(d.quot, <<1>>) ELSE d.quot)

\* n * x for an integer n (exactly representable) and a double x
F64Mul(n, x) == F64Round(LimbsMul(n, x))

F64Add(x, y) == F64Round(LimbsAdd(x, y))

\* Math.floor in the place of Math.round
MathFloor(x) == LimbsToNat(ShiftRight(x, F64Scale))

\* Math.round: the nearest integer, ties towards +Infinity = floor(x + 1/2)
MathRound(x) ==
    LimbsToNat(ShiftRight(LimbsAdd(x, Pow2Limbs(F64Scale - 1)), F64Scale))

(***************************************************************************)
(* Strings                                                                 *)
(***************************************************************************)
LowerCase ==
    << "a", "b", "c", "d", "e", "f", "g", "h", "i", "j", "k", "l", "m",
       "n", "o", "p", "q", "r", "s", "t", "u", "v", "w", "x", "y", "z" >>

UpperCase ==
    << "A", "B", "C", "D", "E", "F", "G", "H", "I", "J", "K", "L", "M",
       "N", "O", "P", "Q", "R", "S", "T", "U", "V", "W", "X", "Y", "Z" >>

\* one character of String.prototype.toUpperCase (ASCII)
ToUpperChar(c) ==
    IF \E i \in 1..Len(LowerCase) : LowerCase[i] = c
    THEN UpperCase[CHOOSE i \in 1..Len(LowerCase) : LowerCase[i] = c]
    ELSE c

toUpperCase(s) == [i \in 1..Len(s) |-> ToUpperChar(s[i])]

\* the characters \s matches, among those of the model
WhiteSpace == {" ", "\t", "\n"}

\* s.replace(/\s+/g, r): every maximal run of white space becomes r
RECURSIVE ReplaceFrom(_, _, _)
ReplaceFrom(s, i, r) ==
    IF i > Len(s) THEN <<>>
    ELSE IF s[i] \in WhiteSpace
         THEN (IF i > 1 /\ s[i - 1] \in WhiteSpace THEN <<>> ELSE r)
              \o ReplaceFrom(s, i + 1, r)
         ELSE <<s[i]>> \o ReplaceFrom(s, i + 1, r)

replaceWhiteSpace(s, r) == ReplaceFrom(s, 1, r)

\* s.includes(t)
includes(s, t) ==
    \E i \in 0..(Len(s) - Len(t)) : SubSeq(s, i + 1, i + Len(t)) = t

RECURSIVE Concat(_)
Concat(ss) == IF ss = <<>> THEN <<>> ELSE Head(ss) \o Concat(Tail(ss))

(***************************************************************************)
(* Optional chaining and || of JavaScript                                  *)
(***************************************************************************)
\* obj?.f
OptChain(obj, f) ==
    IF obj.type \in {"null", "undefined"} THEN Undefined ELSE obj[f]

\* a || b
Or(a, b) == IF Falsy(a) THEN b ELSE a

\* a < n for a number a or NaN and an integer n: false for NaN
Lt(a, n) == a.type = "number" /\ a.value < n

(***************************************************************************)
(* analyzer/health-scorer.ts                                               *)
(***************************************************************************)
\* OSI-approved licenses (common ones)
OSI_APPROVED_LICENSES ==
    { <<"M", "I", "T">>,
      <<"A", "p", "a", "c", "h", "e", "-", "2", ".", "0">>,
      <<"B", "S", "D", "-", "2", "-", "C", "l", "a", "u", "s", "e">>,
      <<"B", "S", "D", "-", "3", "-", "C", "l", "a", "u", "s", "e">>,
      <<"I", "S", "C">>,
      <<"M", "P", "L", "-", "2", ".", "0">>,
      <<"G", "P", "L", "-", "3", ".", "0">>,
      <<"G", "P", "L", "-", "3", ".", "0", "-", "o", "n", "l", "y">>,
      <<"G", "P", "L", "-", "3", ".", "0", "-", "o", "r", "-", "l", "a", "t", "e", "r">>,
      <<"L", "G", "P", "L", "-", "3", ".", "0">>,
      <<"L", "G", "P", "L", "-", "3", ".", "0", "-", "o", "n", "l", "y">>,
      <<"L", "G", "P", "L", "-", "3", ".", "0", "-", "o", "r", "-", "l", "a", "t", "e", "r">>,
      <<"A", "G", "P", "L", "-", "3", ".", "0">>,
      <<"U", "n", "l", "i", "c", "e", "n", "s", "e">>,
      <<"0", "B", "S", "D">>,
      <<"C", "C", "0", "-", "1", ".", "0">>,
      <<"Z", "l", "i", "b">>,
      <<"A", "r", "t", "i", "s", "t", "i", "c", "-", "2", ".", "0">>,
      <<"E", "P", "L", "-", "2", ".", "0">>,
      <<"E", "U", "P", "L", "-", "1", ".", "2">> }

\* Deprecated or problematic licenses
DEPRECATED_LICENSES ==
    { <<"G", "P", "L", "-", "2", ".", "0">>,
      <<"L", "G", "P", "L", "-", "2", ".", "0">>,
      <<"L", "G", "P", "L", "-", "2", ".", "1">>,
      <<"B", "S", "D", "-", "4", "-", "C", "l", "a", "u", "s", "e">>,
      <<"W", "T", "F", "P", "L">> }

\* weights that do not add up to 1
WEIGHTS_NotNormalised ==
    [freshness   |-> F64Literal(40, 100),
     maintainers |-> F64Literal(40, 100),
     license     |-> F64Literal(30, 100)]

\* Weights for overall score calculation: the doubles 0.40, 0.30, 0.30
WEIGHTS ==
    [freshness   |-> F64Literal(40, 100),
     maintainers |-> F64Literal(30, 100),
     license     |-> F64Literal(30, 100)]

\* 1000 * 60 * 60 * 24 milliseconds, in the seconds time values are counted in
SecPerDay == 60 * 60 * 24

\* Math.floor((now.getTime() - lastUpdate.getTime()) / (1000 * 60 * 60 * 24));
\* getTime() of an Invalid Date is NaN, and so is everything computed from it
DaysBetween(lastUpdate, nowDate) ==
    IF lastUpdate.time.type = "NaN" \/ nowDate.time.type = "NaN" THEN NaN
    ELSE Num((nowDate.time.value - lastUpdate.time.value) \div SecPerDay)

Min(a, b) == IF a <= b THEN a ELSE b

\* the first threshold with <= in the place of <
FreshnessThreshold_Inclusive(daysSinceUpdate) ==
    IF Lt(daysSinceUpdate, 181) THEN [score |-> 100, status |-> "active"]
    ELSE IF Lt(daysSinceUpdate, 365) THEN [score |-> 75, status |-> "active"]
    ELSE IF Lt(daysSinceUpdate, 730) THEN [score |-> 40, status |-> "stale"]
    ELSE IF Lt(daysSinceUpdate, 1095) THEN [score |-> 20, status |-> "abandoned"]
    ELSE [score |-> 5, status |-> "abandoned"]

\* the threshold table of calculateFreshnessScore
FreshnessThreshold(daysSinceUpdate) ==
    IF Lt(daysSinceUpdate, 180) THEN [score |-> 100, status |-> "active"]
    ELSE IF Lt(daysSinceUpdate, 365) THEN [score |-> 75, status |-> "active"]
    ELSE IF Lt(daysSinceUpdate, 730) THEN [score |-> 40, status |-> "stale"]
    ELSE IF Lt(daysSinceUpdate, 1095) THEN [score |-> 20, status |-> "abandoned"]
    ELSE [score |-> 5, status |-> "abandoned"]

\* If GitHub repo is archived, heavily penalize
ArchivedOverride(r, gh) ==
    IF ~Falsy(OptChain(gh, "isArchived"))
    THEN [score |-> Min(r.score, 10), status |-> "abandoned"]
    ELSE r

\* the registry publish date preferred to the last commit
ResolveLastUpdate_PublishFirst(md, gh) ==
    Or(md.lastPublished, OptChain(gh, "lastCommitDate"))

\* Use GitHub last commit if available, otherwise use registry last publish
ResolveLastUpdate(md, gh) == Or(OptChain(gh, "lastCommitDate"), md.lastPublished)

\* the archived override applied to the unknown result as well
calculateFreshnessScore_ArchivedFirst(md, gh, nowDate) ==
    LET lastUpdate == ResolveLastUpdate(md, gh)
        daysSinceUpdate == IF Falsy(lastUpdate) THEN Null
                           ELSE DaysBetween(lastUpdate, nowDate)
        r == ArchivedOverride(IF Falsy(lastUpdate)
                              THEN [score |-> 50, status |-> "unknown"]
                              ELSE FreshnessThreshold(daysSinceUpdate), gh)
    IN  [score |-> r.score,
         lastUpdate |-> IF Falsy(lastUpdate) THEN Null ELSE lastUpdate,
         daysSinceUpdate |-> daysSinceUpdate, status |-> r.status]

calculateFreshnessScore(md, gh, nowDate) ==
    LET lastUpdate == ResolveLastUpdate(md, gh)
    IN  IF Falsy(lastUpdate)
        THEN [score |-> 50, lastUpdate |-> Null, daysSinceUpdate |-> Null,
              status |-> "unknown"]
        ELSE LET daysSinceUpdate == DaysBetween(lastUpdate, nowDate)
                 r == ArchivedOverride(FreshnessThreshold(daysSinceUpdate), gh)
             IN  [score |-> r.score, lastUpdate |-> lastUpdate,
                  daysSinceUpdate |-> daysSinceUpdate, status |-> r.status]

\* ?? in the place of ||: a contributor count of 0 is used as it is
ResolveCount_Nullish(md, gh) ==
    LET c == OptChain(gh, "contributorCount")
    IN  (IF c.type \in {"null", "undefined"} THEN Num(Len(md.maintainers)) ELSE c).value

\* Use GitHub contributors if available, otherwise use registry maintainers
ResolveCount(md, gh) ==
    Or(OptChain(gh, "contributorCount"), Num(Len(md.maintainers))).value

\* count > 3 in the place of count >= 3
MaintainerThreshold_Strict(count) ==
    IF count >= 5 THEN [score |-> 100, status |-> "healthy"]
    ELSE IF count > 3 THEN [score |-> 85, status |-> "healthy"]
    ELSE IF count = 2 THEN [score |-> 70, status |-> "warning"]
    ELSE IF count = 1 THEN [score |-> 40, status |-> "warning"]
    ELSE [score |-> 10, status |-> "critical"]

\* the threshold table of calculateMaintainerScore
MaintainerThreshold(count) ==
    IF count >= 5 THEN [score |-> 100, status |-> "healthy"]
    ELSE IF count >= 3 THEN [score |-> 85, status |-> "healthy"]
    ELSE IF count = 2 THEN [score |-> 70, status |-> "warning"]
    ELSE IF count = 1 THEN [score |-> 40, status |-> "warning"]
    ELSE [score |-> 10, status |-> "critical"]

calculateMaintainerScore(md, gh) ==
    LET count == ResolveCount(md, gh)
        r     == MaintainerThreshold(count)
    IN  [score |-> r.score, count |-> count, status |-> r.status]

\* /\s/g in the place of /\s+/g: one hyphen for every white space character
NormalizeLicense_EachSpace(chars) ==
    [i \in 1..Len(chars) |->
       IF chars[i] \in WhiteSpace THEN "-" ELSE ToUpperChar(chars[i])]

\* license.toUpperCase().replace(/\s+/g, '-')
NormalizeLicense(chars) == replaceWhiteSpace(toUpperCase(chars), <<"-">>)

\* deprecated.toUpperCase() for every deprecated of DEPRECATED_LICENSES
DeprecatedUpper == {toUpperCase(deprecated) : deprecated \in DEPRECATED_LICENSES}

\* approved.toUpperCase() for every approved of OSI_APPROVED_LICENSES
ApprovedUpper == {toUpperCase(approved) : approved \in OSI_APPROVED_LICENSES}

\* the approved loop before the deprecated one
ClassifyLicense_ApprovedFirst(normalizedLicense) ==
    IF \E approved \in ApprovedUpper : includes(normalizedLicense, approved)
    THEN [score |-> 100, status |-> "approved"]
    ELSE IF \E deprecated \in DeprecatedUpper : includes(normalizedLicense, deprecated)
    THEN [score |-> 50, status |-> "deprecated"]
    ELSE [score |-> 60, status |-> "warning"]

\* the two loops over the license sets, the deprecated one first
ClassifyLicense(normalizedLicense) ==
    IF \E deprecated \in DeprecatedUpper : includes(normalizedLicense, deprecated)
    THEN [score |-> 50, status |-> "deprecated"]
    ELSE IF \E approved \in ApprovedUpper : includes(normalizedLicense, approved)
    THEN [score |-> 100, status |-> "approved"]
    ELSE [score |-> 60, status |-> "warning"]

calculateLicenseScore(md) ==
    LET license == md.license
    IN  IF Falsy(license)
        THEN [score |-> 30, license |-> Null, status |-> "unknown"]
        ELSE LET r == ClassifyLicense(NormalizeLicense(license.chars))
             IN  [score |-> r.score, license |-> license, status |-> r.status]

\* Math.round(freshness * 0.40 + maintainers * 0.30 + license * 0.30), in doubles
WeightedOverall(f, m, l) ==
    MathRound(F64Add(F64Add(F64Mul(f, WEIGHTS.freshness),
                            F64Mul(m, WEIGHTS.maintainers)),
                     F64Mul(l, WEIGHTS.license)))

calculateHealthScore(md, gh, nowDate) ==
    LET freshness        == calculateFreshnessScore(md, gh, nowDate)
        maintainerHealth == calculateMaintainerScore(md, gh)
        licenseHealth    == calculateLicenseScore(md)
    IN  [overall          |-> WeightedOverall(freshness.score,
                                              maintainerHealth.score,
                                              licenseHealth.score),
         freshness        |-> freshness,
         maintainerHealth |-> maintainerHealth,
         licenseHealth    |-> licenseHealth]

\* the null check of calculateLicenseScore left out: null.toUpperCase()
calculateHealthScoreThrows_NoNullCheck(md, gh) ==
    LET lastUpdate == ResolveLastUpdate(md, gh)
    IN  \/ (~Falsy(lastUpdate) /\ lastUpdate.type # "Date")
        \/ md.license.type # "string"

\* The calls that raise a TypeError: lastUpdate.getTime() of a truthy value
\* that is no Date, license.toUpperCase() of a truthy value that is no
\* string.  (metadata.maintainers is always an array: both clients build it.)
calculateHealthScoreThrows(md, gh) ==
    LET lastUpdate == ResolveLastUpdate(md, gh)
    IN  \/ (~Falsy(lastUpdate) /\ lastUpdate.type # "Date")
        \/ (~Falsy(md.license) /\ md.license.type # "string")

(***************************************************************************)
(* The inputs of a call: what the registry clients and the GitHub client   *)
(* (npm-client.ts, pypi-client.ts, github-client.ts) can hand to the       *)
(* scorer.                                                                 *)
(***************************************************************************)
\* the largest contributor count and the longest maintainer list
MaxCount == 6

\* the number of pieces a license string is put together from
MaxParts == 3

\* how many days around each freshness threshold are tried
DaySpread == 1

\* the earlier of the two clock readings, in seconds since the epoch
Now0 == 1700000000

\* the thresholds of calculateFreshnessScore, in days
DayMarks == {180, 365, 730, 1095}

\* ages in days: in the future, today, and around every threshold
FineDays == {-1, 0} \cup {m + k : m \in DayMarks, k \in (-DaySpread)..DaySpread}

\* one age per freshness bucket
CoarseDays == {0} \cup DayMarks

\* a Date that many whole days before Now0, at the start or the end of the day
DatesOf(days) ==
    {DateOf(Num(Now0 - (d * SecPerDay + o))) : d \in days, o \in {0, SecPerDay - 1}}

\* a Date that many whole days before Now0
OneDateOf(days) == {DateOf(Num(Now0 - d * SecPerDay)) : d \in days}

\* new Date(s) of a string that is no date
InvalidDate == DateOf(NaN)

\* metadata.maintainers with k entries
Maintainers(k) == [i \in 1..k |-> [name |-> i]]

LicensePieces ==
    { <<"M", "I", "T">>,
      <<"m", "i", "t">>,
      <<"G", "P", "L", "-", "2", ".", "0">>,
      <<"G", "P", "L", "-", "3", ".", "0">>,
      <<"A", "p", "a", "c", "h", "e">>,
      <<"2", ".", "0">>,
      <<"-">>,
      <<" ">>,
      <<" ", "\t">>,
      <<" ", "O", "R", " ">>,
      <<"S", "o", "m", "e", "-", "C", "u", "s", "t", "o", "m", "-", "L", "i", "c", "e", "n", "s", "e">> }

\* license strings of 1..MaxParts pieces; the clients turn "" into null
LicenseStrings ==
    {Str(Concat(ps)) : ps \in UNION {[1..n -> LicensePieces] : n \in 1..MaxParts}}

SomeLicenses ==
    { Str(<<"M", "I", "T">>),
      Str(<<"G", "P", "L", "-", "2", ".", "0">>),
      Str(<<"S", "o", "m", "e", "-", "C", "u", "s", "t", "o", "m", "-", "L", "i", "c", "e", "n", "s", "e">>),
      Str(<<"M", "I", "T", " ", "O", "R", " ", "G", "P", "L", "-", "2", ".", "0">>),
      Str(<<"a", "p", "a", "c", "h", "e", " ", "2", ".", "0">>) }

SomeUrl == Str(<<"h", "t", "t", "p", "s", ":", "/", "/", "g", "i", "t", "h", "u", "b", ".", "c", "o", "m", "/", "o", "/", "r">>)

PackageMetadata(lastPublished, k, license, other) ==
    [name          |-> Str(<<"p", "k", "g">>),
     version       |-> Str(<<"1", ".", "0", ".", "0">>),
     lastPublished |-> lastPublished,
     maintainers   |-> Maintainers(k),
     license       |-> license,
     repositoryUrl |-> other,
     homepage      |-> other,
     description   |-> other]

GitHubRepoHealth(lastCommitDate, contributorCount, isArchived) ==
    [type             |-> "object",
     lastCommitDate   |-> lastCommitDate,
     contributorCount |-> Num(contributorCount),
     openIssues       |-> Num(0),
     stars            |-> Num(0),
     isArchived       |-> Bool(isArchived)]

(***************************************************************************)
(* A call of calculateHealthScore: pc = "call" with the arguments and the  *)
(* clock reading chosen, pc = "return" with the HealthScore in health.     *)
(***************************************************************************)
NoRisk == score = Null /\ risk = Null

NoScan ==
    /\ inputPath = Null /\ options = Null
    /\ dependencies = <<>> /\ index = 0 /\ analyses = <<>> /\ summary = Null
    /\ calls = <<>> /\ output = Null /\ exitCode = Null

CallOf(metadatas, githubHealths, clocks) ==
    /\ metadata \in metadatas
    /\ githubHealth \in githubHealths
    /\ now \in {DateOf(Num(t)) : t \in clocks}
    /\ health = Null
    /\ pc = "call"
    /\ NoRisk /\ NoScan

\* Every kind of input: a publish date in every freshness bucket, a commit
\* date in the first and the last, every count, every kind of license.
Init ==
    CallOf({PackageMetadata(d, k, l, o) :
              d \in {Null, InvalidDate} \cup OneDateOf(CoarseDays),
              k \in 0..MaxCount,
              l \in {Null} \cup SomeLicenses,
              o \in {Null, SomeUrl}},
           {Undefined, Null}
             \cup {GitHubRepoHealth(d, c, a) :
                     d \in {Null, InvalidDate} \cup OneDateOf({0, 1095}),
                     c \in 0..MaxCount,
                     a \in BOOLEAN},
           {Now0})

\* The dates around every freshness threshold, at two clock readings.
InitFreshness ==
    CallOf({PackageMetadata(d, 1, Null, Null) :
              d \in {Null, InvalidDate} \cup DatesOf(FineDays)},
           {Undefined, Null}
             \cup {GitHubRepoHealth(d, 0, a) :
                     d \in {Null, InvalidDate} \cup DatesOf(FineDays),
                     a \in BOOLEAN},
           {Now0, Now0 + 1})

\* The license strings.
InitLicense ==
    CallOf({PackageMetadata(Null, 1, l, Null) : l \in {Null} \cup LicenseStrings},
           {Undefined},
           {Now0})

Score ==
    /\ pc = "call"
    /\ IF calculateHealthScoreThrows(metadata, githubHealth)
       THEN health' = Null /\ pc' = "throw"
       ELSE /\ health' = calculateHealthScore(metadata, githubHealth, now)
            /\ pc' = "return"
    /\ UNCHANGED <<metadata, githubHealth, now, riskVars, scanVars>>

Next == Score

Spec == Init /\ [][Next]_vars

SpecFreshness == InitFreshness /\ [][Next]_vars

SpecLicense == InitLicense /\ [][Next]_vars

(***************************************************************************)
(* Properties of calculateHealthScore                                      *)
(***************************************************************************)
Returned == pc = "return"

IsObject(v) == v.type = "object"

\* C1: every score a call returns, the overall one and the three sub-scores,
\* is an integer between 0 and 100.
C1_ScoresInRange ==
    Returned =>
        /\ health.overall \in 0..100
        /\ health.freshness.score \in 0..100
        /\ health.maintainerHealth.score \in 0..100
        /\ health.licenseHealth.score \in 0..100

\* C1, its case: a call returned the largest score, 100
C1_Witness ==
    /\ Returned
    /\ health.overall = 100
    /\ health.freshness.score = 100

\* C2: the overall score is 0.40 * freshness + 0.30 * maintainer + 0.30 * license
\* rounded to the nearest integer, halves up: floor((4f + 3m + 3l + 5) / 10);
\* freshness 100, maintainer 70, license 100 give 91.
C2_OverallIsWeightedRound ==
    Returned =>
        LET f == health.freshness.score
            m == health.maintainerHealth.score
            l == health.licenseHealth.score
        IN  /\ health.overall = (4 * f + 3 * m + 3 * l + 5) \div 10
            /\ (f = 100 /\ m = 70 /\ l = 100) => health.overall = 91

\* C2, its case: the example of the claim, and a sum that ends in .5
C2_Witness ==
    /\ Returned
    /\ health.freshness.score = 100
    /\ health.maintainerHealth.score = 70
    /\ health.licenseHealth.score = 100
    /\ health.overall = 91

\* the seconds from the reference timestamp of the result to the clock reading
Elapsed == now.time.value - health.freshness.lastUpdate.time.value

\* the freshness result the claim gives for d whole days
C3_Expected(d) ==
    IF d < 180 THEN <<100, "active">>
    ELSE IF d < 365 THEN <<75, "active">>
    ELSE IF d < 730 THEN <<40, "stale">>
    ELSE IF d < 1095 THEN <<20, "abandoned">>
    ELSE <<5, "abandoned">>

C3_Days == (-2)..(1095 + DaySpread + 1)

\* C3: with a reference timestamp and no archived repository, the freshness
\* score and status are those of the whole days d elapsed: d < 180 100/active,
\* d < 365 75/active, d < 730 40/stale, d < 1095 20/abandoned, else
\* 5/abandoned, with 179 -> 100, 180 -> 75, 364 -> 75, 365 -> 40, 729 -> 40,
\* 730 -> 20, 1094 -> 20, 1095 -> 5.
C3_FreshnessThresholds ==
    (/\ Returned
     /\ health.freshness.lastUpdate.type = "Date"
     /\ health.freshness.lastUpdate.time.type = "number"
     /\ ~(IsObject(githubHealth) /\ githubHealth.isArchived.value))
    => /\ \E d \in C3_Days : d * SecPerDay <= Elapsed /\ Elapsed < (d + 1) * SecPerDay
       /\ \A d \in C3_Days :
            (d * SecPerDay <= Elapsed /\ Elapsed < (d + 1) * SecPerDay)
            => <<health.freshness.score, health.freshness.status>> = C3_Expected(d)
       /\ \A b \in {<<179, 100>>, <<180, 75>>, <<364, 75>>, <<365, 40>>,
                    <<729, 40>>, <<730, 20>>, <<1094, 20>>, <<1095, 5>>} :
            (b[1] * SecPerDay <= Elapsed /\ Elapsed < (b[1] + 1) * SecPerDay)
            => health.freshness.score = b[2]

\* C3, its case: exactly 180 days elapsed, not archived, scored 75
C3_Witness ==
    /\ Returned
    /\ health.freshness.lastUpdate.type = "Date"
    /\ health.freshness.lastUpdate.time.type = "number"
    /\ ~(IsObject(githubHealth) /\ githubHealth.isArchived.value)
    /\ Elapsed = 180 * SecPerDay
    /\ health.freshness.score = 75

\* C4: with repository health whose isArchived is true, whatever the commit
\* and publish dates, the freshness score is at most 10 and the status is
\* "abandoned".
C4_ArchivedCapped ==
    (Returned /\ IsObject(githubHealth) /\ githubHealth.isArchived.value)
    => /\ health.freshness.score <= 10
       /\ health.freshness.status = "abandoned"

\* no reference timestamp resolves: no publish date, and no repository health
\* or one without a commit date
NoTimestamp ==
    /\ metadata.lastPublished = Null
    /\ (IsObject(githubHealth) => githubHealth.lastCommitDate = Null)

C6_Reference ==
    IF IsObject(githubHealth) /\ githubHealth.lastCommitDate # Null
    THEN githubHealth.lastCommitDate
    ELSE metadata.lastPublished

\* C6: freshness.lastUpdate is repoHealth.lastCommitDate when repository health
\* is present with a commit date and metadata.lastPublished otherwise,
\* daysSinceUpdate is the whole days from it to now, rounded down, and with a
\* commit date present the publish date does not change the freshness result.
C6_CommitDatePreferred ==
    Returned =>
        /\ health.freshness.lastUpdate = C6_Reference
        /\ (C6_Reference # Null /\ C6_Reference.time.type = "number") =>
             LET e == now.time.value - C6_Reference.time.value
                 d == health.freshness.daysSinceUpdate
             IN  /\ d.type = "number"
                 /\ d.value * SecPerDay <= e
                 /\ e < (d.value + 1) * SecPerDay
        /\ (C6_Reference # Null /\ C6_Reference.time.type = "NaN") =>
             health.freshness.daysSinceUpdate = NaN
        /\ (IsObject(githubHealth) /\ githubHealth.lastCommitDate # Null) =>
             health.freshness =
               calculateFreshnessScore([metadata EXCEPT !.lastPublished = Null],
                                       githubHealth, now)

\* C6, its case: a package published today whose repository saw its last
\* commit 1095 days ago is scored by the commit
C6_Witness ==
    /\ Returned
    /\ IsObject(githubHealth)
    /\ ~githubHealth.isArchived.value
    /\ metadata.lastPublished = DateOf(Num(Now0))
    /\ githubHealth.lastCommitDate = DateOf(Num(Now0 - 1095 * SecPerDay))
    /\ health.freshness.lastUpdate = githubHealth.lastCommitDate
    /\ health.freshness.daysSinceUpdate = Num(1095)
    /\ health.freshness.score = 5

\* C7: score and status of the maintainer result are those of its count:
\* >= 5 100/healthy, 3 or 4 85/healthy, 2 70/warning, 1 40/warning,
\* 0 10/critical, and the count returned is the count that was scored.
C7_MaintainerTable ==
    Returned =>
        LET c == health.maintainerHealth.count
            r == <<health.maintainerHealth.score, health.maintainerHealth.status>>
        IN  /\ c \in Nat
            /\ c >= 5 => r = <<100, "healthy">>
            /\ c \in {3, 4} => r = <<85, "healthy">>
            /\ c = 2 => r = <<70, "warning">>
            /\ c = 1 => r = <<40, "warning">>
            /\ c = 0 => r = <<10, "critical">>
            /\ c \in (IF IsObject(githubHealth)
                      THEN {githubHealth.contributorCount.value}
                      ELSE {})
                     \cup {Len(metadata.maintainers)}

\* C7, its case: three maintainers, the lower end of the 85 row
C7_Witness ==
    /\ Returned
    /\ health.maintainerHealth.count = 3
    /\ health.maintainerHealth.score = 85
    /\ health.maintainerHealth.status = "healthy"

\* C8: the count is repoHealth.contributorCount when repository health is
\* present and that count is not 0, and the length of the registry's maintainer
\* list otherwise; a contributor count of 0 never replaces a maintainer list.
C8_CountSource ==
    Returned =>
        /\ health.maintainerHealth.count =
             (IF IsObject(githubHealth) /\ githubHealth.contributorCount.value # 0
              THEN githubHealth.contributorCount.value
              ELSE Len(metadata.maintainers))
        /\ (IsObject(githubHealth) /\ githubHealth.contributorCount.value = 0
               /\ Len(metadata.maintainers) > 0)
           => health.maintainerHealth.score > 10

\* C8, its case: repository health with 0 contributors, two registry maintainers
C8_Witness ==
    /\ Returned
    /\ IsObject(githubHealth)
    /\ githubHealth.contributorCount.value = 0
    /\ Len(metadata.maintainers) = 2
    /\ health.maintainerHealth.count = 2
    /\ health.maintainerHealth.score = 70

\* t occurs in s from position i + 1 on
OccursAt(s, t, i) ==
    /\ i + Len(t) <= Len(s)
    /\ \A k \in 1..Len(t) : s[i + k] = t[k]

Occurs(s, t) == \E i \in 0..Len(s) : OccursAt(s, t, i)

\* the positions of s that start a run of white space or hold another character
C9_Kept(s) ==
    SelectSeq([i \in 1..Len(s) |-> i],
              LAMBDA i : ~(s[i] \in WhiteSpace /\ i > 1 /\ s[i - 1] \in WhiteSpace))

\* s in upper case with one hyphen for every run of white space
C9_Normalized(s) ==
    LET kept == C9_Kept(s)
    IN  [j \in 1..Len(kept) |->
           IF s[kept[j]] \in WhiteSpace THEN "-" ELSE ToUpperChar(s[kept[j]])]

\* some token of the set, in upper case, occurs in n
C9_HasToken(n, tokens) == \E t \in tokens : Occurs(n, toUpperCase(t))

\* C9: no license gives 30/unknown with license null; otherwise, with the
\* license in upper case and every run of white space a hyphen, a deprecated
\* token in it gives 50/deprecated, else an approved token 100/approved, else
\* 60/warning, and the license is returned as it was given: "MIT" is
\* approved/100, "GPL-2.0" deprecated/50, "Some-Custom-License" warning/60.
C9_LicenseScore ==
    Returned =>
        LET r == health.licenseHealth
            c == <<r.score, r.status>>
        IN  /\ metadata.license = Null => r = [score |-> 30, license |-> Null,
                                               status |-> "unknown"]
            /\ metadata.license # Null =>
                 LET n == C9_Normalized(metadata.license.chars)
                 IN  /\ r.license = metadata.license
                     /\ c = (IF C9_HasToken(n, DEPRECATED_LICENSES)
                             THEN <<50, "deprecated">>
                             ELSE IF C9_HasToken(n, OSI_APPROVED_LICENSES)
                             THEN <<100, "approved">>
                             ELSE <<60, "warning">>)
            /\ metadata.license = Str(<<"M", "I", "T">>) => c = <<100, "approved">>
            /\ metadata.license = Str(<<"G", "P", "L", "-", "2", ".", "0">>) => c = <<50, "deprecated">>
            /\ metadata.license = Str(<<"S", "o", "m", "e", "-", "C", "u", "s", "t", "o", "m", "-", "L", "i", "c", "e", "n", "s", "e">>)
               => c = <<60, "warning">>

\* C9, its case: "Apache", a space and a tab, "2.0" is approved only through
\* the upper case and the one hyphen of the normalisation
C9_Witness ==
    /\ Returned
    /\ metadata.license = Str(<<"A", "p", "a", "c", "h", "e", " ", "\t", "2", ".", "0">>)
    /\ health.licenseHealth.status = "approved"
    /\ health.licenseHealth.score = 100
    /\ health.licenseHealth.license = metadata.license

\* C10: a license whose normalised form holds a deprecated and an approved
\* token is 50/deprecated, never approved.
C10_DeprecatedFirst ==
    (/\ Returned
     /\ metadata.license # Null
     /\ C9_HasToken(C9_Normalized(metadata.license.chars), DEPRECATED_LICENSES)
     /\ C9_HasToken(C9_Normalized(metadata.license.chars), OSI_APPROVED_LICENSES))
    => /\ health.licenseHealth.status = "deprecated"
       /\ health.licenseHealth.score = 50

\* C10, its case: "MIT OR GPL-2.0"
C10_Witness ==
    /\ Returned
    /\ metadata.license = Str(<<"M", "I", "T", " ", "O", "R", " ", "G", "P", "L", "-", "2", ".", "0">>)
    /\ health.licenseHealth.status = "deprecated"
    /\ health.licenseHealth.score = 50

(***************************************************************************)
(* types/index.ts: getRiskLevel                                            *)
(***************************************************************************)
\* a >= n for a number a, NaN or undefined and an integer n: false unless a
\* is a number
Ge(a, n) == a.type = "number" /\ a.value >= n

getRiskLevel_Strict(s) ==
    IF s.type = "null" THEN "unknown"
    ELSE IF s.type = "number" /\ s.value > 80 THEN "healthy"
    ELSE IF Ge(s, 50) THEN "warning"
    ELSE "critical"

getRiskLevel(s) ==
    IF s.type = "null" THEN "unknown"
    ELSE IF Ge(s, 80) THEN "healthy"
    ELSE IF Ge(s, 50) THEN "warning"
    ELSE "critical"

\* the largest overall score
MaxOverall == 100

\* the scorer and the scan are not running
NoCall ==
    /\ metadata = Null /\ githubHealth = Null /\ now = Null /\ health = Null

\* A call of getRiskLevel with null or an overall score.
InitRisk ==
    /\ score \in {Null} \cup {Num(n) : n \in 0..MaxOverall}
    /\ risk = Null
    /\ pc = "call"
    /\ NoCall /\ NoScan

Classify ==
    /\ pc = "call"
    /\ risk' = getRiskLevel(score)
    /\ pc' = "return"
    /\ UNCHANGED <<metadata, githubHealth, now, health, score, scanVars>>

SpecRisk == InitRisk /\ [][Classify]_vars

\* C11: getRiskLevel answers 'unknown' exactly for null, 'healthy' exactly
\* for a score of at least 80, 'warning' exactly for a score from 50 to 79
\* and 'critical' exactly for a score below 50, so every input gets exactly
\* one of the four levels: 80 is healthy, 79 and 50 warning, 49 critical.
C11_RiskLevels ==
    Returned =>
        /\ risk \in {"healthy", "warning", "critical", "unknown"}
        /\ (risk = "unknown") <=> (score = Null)
        /\ (risk = "healthy") <=> (score # Null /\ score.value >= 80)
        /\ (risk = "warning") <=> (score # Null /\ score.value >= 50 /\ score.value < 80)
        /\ (risk = "critical") <=> (score # Null /\ score.value < 50)
        /\ (score = Num(80)) => risk = "healthy"
        /\ (score = Num(79)) => risk = "warning"
        /\ (score = Num(50)) => risk = "warning"
        /\ (score = Num(49)) => risk = "critical"

\* C11, its case: the boundary score 80 was classified
C11_Witness == Returned /\ score = Num(80) /\ risk = "healthy"

\* a HealthScore as types/index.ts declares it
C12_WellFormed(h) ==
    /\ h.overall \in 0..100
    /\ h.freshness.score \in 0..100
    /\ h.freshness.status \in {"active", "stale", "abandoned", "unknown"}
    /\ h.freshness.lastUpdate.type \in {"Date", "null"}
    /\ h.freshness.daysSinceUpdate.type \in {"number", "NaN", "null"}
    /\ h.maintainerHealth.score \in 0..100
    /\ h.maintainerHealth.count \in Nat
    /\ h.maintainerHealth.status \in {"healthy", "warning", "critical"}
    /\ h.licenseHealth.score \in 0..100
    /\ h.licenseHealth.license.type \in {"string", "null"}
    /\ h.licenseHealth.status \in {"approved", "warning", "unknown", "deprecated"}

\* C12: calculateHealthScore is total: whatever the metadata (every
\* nullable field null, no maintainers) and the repository health (absent,
\* null, or present with no commit date and zero counts), the call raises
\* no error and returns a HealthScore whose scores are numbers from 0 to
\* 100 and whose statuses are values of their enumerations.
C12_ScorerIsTotal ==
    /\ pc # "throw"
    /\ Returned => C12_WellFormed(health)

\* C12, its case: nothing known about the package, a repository without
\* commits and contributors
C12_Witness ==
    /\ Returned
    /\ metadata = PackageMetadata(Null, 0, Null, Null)
    /\ githubHealth = GitHubRepoHealth(Null, 0, FALSE)
    /\ health.overall = 32
    /\ health.freshness.status = "unknown"
    /\ health.maintainerHealth.status = "critical"
    /\ health.licenseHealth.status = "unknown"

(***************************************************************************)
(* parseInt(s, 10)                                                         *)
(***************************************************************************)
Digits == <<"0", "1", "2", "3", "4", "5", "6", "7", "8", "9">>

IsDigit(c) == \E d \in 1..Len(Digits) : Digits[d] = c

DigitValue(c) == (CHOOSE d \in 1..Len(Digits) : Digits[d] = c) - 1

\* s without its leading white space
RECURSIVE TrimStart(_)
TrimStart(s) ==
    IF s # <<>> /\ Head(s) \in WhiteSpace THEN TrimStart(Tail(s)) ELSE s

\* the value of the longest prefix of s made of digits, after the value acc
RECURSIVE DigitsValue(_, _)
DigitsValue(s, acc) ==
    IF s # <<>> /\ IsDigit(Head(s))
    THEN DigitsValue(Tail(s), acc * 10 + DigitValue(Head(s)))
    ELSE acc

\* parseInt(s, 10) of a string: white space, a sign, then the longest run of
\* digits; NaN when there is no digit
parseInt(s) ==
    LET t == TrimStart(s.chars)
        negative == t # <<>> /\ Head(t) = "-"
        u == IF t # <<>> /\ Head(t) \in {"+", "-"} THEN Tail(t) ELSE t
    IN  IF u = <<>> \/ ~IsDigit(Head(u)) THEN NaN
        ELSE Num(IF negative THEN -DigitsValue(u, 0) ELSE DigitsValue(u, 0))

\* a > n for a number a or NaN and an integer n: false for NaN
Gt(a, n) == a.type = "number" /\ a.value > n

(***************************************************************************)
(* clients/github-client.ts                                                *)
(***************************************************************************)
GitHubHost == <<"g", "i", "t", "h", "u", "b", ".", "c", "o", "m">>

\* the end of the longest run of characters outside stop that starts at
\* position p of s (p - 1 when the run is empty)
RECURSIVE RunEnd(_, _, _)
RunEnd(s, p, stop) ==
    IF p <= Len(s) /\ s[p] \notin stop THEN RunEnd(s, p + 1, stop) ELSE p - 1

\* /github\.com[/:]([^/]+)\/([^/.\s]+)/ matched with "github.com" at p
MatchAt(s, p) ==
    LET sep      == p + Len(GitHubHost)
        ownerEnd == RunEnd(s, sep + 1, {"/"})
        repoEnd  == RunEnd(s, ownerEnd + 2, {"/", "."} \cup WhiteSpace)
    IN  IF /\ sep <= Len(s)
           /\ SubSeq(s, p, sep - 1) = GitHubHost
           /\ s[sep] \in {"/", ":"}
           /\ ownerEnd > sep
           /\ ownerEnd < Len(s)
           /\ s[ownerEnd + 1] = "/"
           /\ repoEnd > ownerEnd + 1
        THEN [type  |-> "object",
              owner |-> SubSeq(s, sep + 1, ownerEnd),
              repo  |-> SubSeq(s, ownerEnd + 2, repoEnd)]
        ELSE Null

\* Extract owner and repo from a GitHub URL: the leftmost match, or null.
\* (The repo group holds no ".", so .replace(/\.git$/, '') leaves it as it is.)
parseGitHubUrl(url) ==
    LET ps == {p \in 1..Len(url.chars) : MatchAt(url.chars, p) # Null}
    IN  IF ps = {} THEN Null
        ELSE MatchAt(url.chars, CHOOSE p \in ps : \A q \in ps : p <= q)

\* how a call ends: with a value, or with an Error that carries a message
Return(v) == [ok |-> TRUE, value |-> v]

Throw(message) == [ok |-> FALSE, message |-> Str(message)]

\* repoData.archived || false, a commit date when the commits request
\* answered a non-empty list, a contributor count when the contributors
\* request answered: the last page of the Link header, 0 for a Link header
\* without one, the length of the list when there is no Link header
RepoHealthOf(r) ==
    GitHubRepoHealth(
        IF r.commits.status = 200 /\ Len(r.commits.data) > 0
        THEN r.commits.data[1] ELSE Null,
        IF r.contributors.status # 200 THEN 0
        ELSE IF Falsy(r.contributors.link) THEN r.contributors.length
        ELSE IF r.contributors.link.last = Null THEN 0
        ELSE parseInt(r.contributors.link.last).value,
        Or(r.repo.archived, Bool(FALSE)).value)

\* a rate-limited repository request raised to the caller
fetchGitHubRepoHealth_RaiseRateLimit(repositoryUrl, r) ==
    IF parseGitHubUrl(repositoryUrl) = Null THEN Return(Null)
    ELSE IF r.repo.status = 403 THEN Throw(<<"G", "i", "t", "H", "u", "b", " ", "A", "P", "I", " ", "r", "a", "t", "e", " ", "l", "i", "m", "i", "t", " ", "r", "e", "a", "c", "h", "e", "d">>)
    ELSE IF r.repo.status # 200 THEN Return(Null)
    ELSE Return(RepoHealthOf(r))

\* Fetch repository health metrics from GitHub API; r holds the answers of
\* the repository, commits and contributors requests.  null for a URL that
\* is no GitHub URL (no request is made) and for a repository request that
\* fails with 403, 404 or anything else.
fetchGitHubRepoHealth(repositoryUrl, r) ==
    IF parseGitHubUrl(repositoryUrl) = Null THEN Return(Null)
    ELSE IF r.repo.status # 200 THEN Return(Null)
    ELSE Return(RepoHealthOf(r))

(***************************************************************************)
(* clients/npm-client.ts, clients/pypi-client.ts.  The answer of the       *)
(* registry is its status (0: no answer, a network error or the timeout)   *)
(* and, for 200, the data the client reads: the date new Date() makes of   *)
(* the publish time, the number of maintainers, the license, the URL.      *)
(***************************************************************************)
NotFoundMessage(packageName) == <<"P", "a", "c", "k", "a", "g", "e", " ", "n", "o", "t", " ", "f", "o", "u", "n", "d", ":", " ">> \o packageName.chars

FailedMessage(packageName, message) ==
    Concat(<<<<"F", "a", "i", "l", "e", "d", " ", "t", "o", " ", "f", "e", "t", "c", "h", " ">>, packageName.chars, <<":", " ">>, message>>)

fetchNpmMetadata(packageName, response) ==
    IF response.status = 200
    THEN Return([PackageMetadata(response.data.lastPublished,
                                 response.data.maintainers,
                                 Or(response.data.license, Null),
                                 Or(response.data.repositoryUrl, Null))
                   EXCEPT !.name = packageName])
    ELSE IF response.status = 404 THEN Throw(NotFoundMessage(packageName))
    ELSE Throw(FailedMessage(packageName, response.message))

\* PyPI names one maintainer (or author) at most
fetchPyPIMetadata(packageName, response) ==
    IF response.status = 200
    THEN Return([PackageMetadata(response.data.lastPublished,
                                 IF response.data.maintainers > 0 THEN 1 ELSE 0,
                                 Or(response.data.license, Null),
                                 Or(response.data.repositoryUrl, Null))
                   EXCEPT !.name = packageName])
    ELSE IF response.status = 404 THEN Throw(NotFoundMessage(packageName))
    ELSE Throw(FailedMessage(packageName, response.message))

(***************************************************************************)
(* parsers/index.ts, parsers/package-json.ts, parsers/requirements-txt.ts. *)
(* A file is its base name and its content; the content is whether         *)
(* JSON.parse accepts it and the package names it lists.                   *)
(***************************************************************************)
PackageJsonName == <<"p", "a", "c", "k", "a", "g", "e", ".", "j", "s", "o", "n">>

RequirementsTxtName == <<"r", "e", "q", "u", "i", "r", "e", "m", "e", "n", "t", "s", ".", "t", "x", "t">>

TxtSuffix == <<".", "t", "x", "t">>

\* one character of String.prototype.toLowerCase (ASCII)
ToLowerChar(c) ==
    IF \E k \in 1..Len(UpperCase) : UpperCase[k] = c
    THEN LowerCase[CHOOSE k \in 1..Len(UpperCase) : UpperCase[k] = c]
    ELSE c

toLowerCase(s) == [k \in 1..Len(s) |-> ToLowerChar(s[k])]

endsWith(s, t) == Len(s) >= Len(t) /\ SubSeq(s, Len(s) - Len(t) + 1, Len(s)) = t

\* every name ending in .txt counts as a requirements file
detectFileType_TxtOnly(filePath) ==
    LET basename == toLowerCase(filePath.basename)
    IN  IF basename = PackageJsonName THEN "npm"
        ELSE IF basename = RequirementsTxtName THEN "pypi"
        ELSE "unknown"

\* Detect file type based on filename
detectFileType(filePath) ==
    LET basename == toLowerCase(filePath.basename)
    IN  IF basename = PackageJsonName THEN "npm"
        ELSE IF basename = RequirementsTxtName \/ endsWith(basename, TxtSuffix) THEN "pypi"
        ELSE "unknown"

Dependency(name, source, isDev) ==
    [name |-> Str(name), version |-> Str(<<"*">>), type |-> "direct",
     source |-> source, isDev |-> isDev]

\* a package.json JSON.parse rejects read as one without dependencies
parsePackageJson_Lenient(filePath) ==
    IF ~filePath.content.parses THEN Return(<<>>)
    ELSE Return([k \in 1..Len(filePath.content.dependencies) |->
                   Dependency(filePath.content.dependencies[k], "npm", FALSE)]
                \o [k \in 1..Len(filePath.content.devDependencies) |->
                      Dependency(filePath.content.devDependencies[k], "npm", TRUE)])

\* Parse a package.json file: the regular dependencies, then the dev ones
parsePackageJson(filePath) ==
    IF ~filePath.content.parses
    THEN Throw(<<"I", "n", "v", "a", "l", "i", "d", " ", "J", "S", "O", "N", " ", "i", "n", " ">> \o filePath.basename)
    ELSE Return([k \in 1..Len(filePath.content.dependencies) |->
                   Dependency(filePath.content.dependencies[k], "npm", FALSE)]
                \o [k \in 1..Len(filePath.content.devDependencies) |->
                      Dependency(filePath.content.devDependencies[k], "npm", TRUE)])

\* Parse a requirements.txt file: a line that is no requirement is skipped,
\* so a file in which no line parses gives the empty list
parseRequirementsTxt(filePath) ==
    IF ~filePath.content.parses THEN Return(<<>>)
    ELSE Return([k \in 1..Len(filePath.content.dependencies) |->
                   Dependency(filePath.content.dependencies[k], "pypi", FALSE)])

\* Parse a dependency file and return dependencies
parseDependencyFile(filePath) ==
    LET fileType == detectFileType(filePath)
    IN  IF fileType = "npm" THEN parsePackageJson(filePath)
        ELSE IF fileType = "pypi" THEN parseRequirementsTxt(filePath)
        ELSE Throw(<<"U", "n", "s", "u", "p", "p", "o", "r", "t", "e", "d", " ", "f", "i", "l", "e", " ", "t", "y", "p", "e", ":", " ">> \o filePath.basename)

(***************************************************************************)
(* cli/index.ts: runScan.  inputPath is what the file system holds at the  *)
(* path: nothing, a file, or a directory with its files.                   *)
(***************************************************************************)
HasFile(dir, basename) == \E f \in dir.files : f.basename = basename

FileOf(dir, basename) == CHOOSE f \in dir.files : f.basename = basename

\* runScan up to the analysis loop: the manifest file is looked up, its
\* type detected, its dependencies parsed and the dev ones filtered out
LoadManifest(path, opts) ==
    IF path.kind = "directory" /\ ~HasFile(path, PackageJsonName)
                               /\ ~HasFile(path, RequirementsTxtName)
    THEN Throw(<<"N", "o", " ", "p", "a", "c", "k", "a", "g", "e", ".", "j", "s", "o", "n", " ", "o", "r", " ", "r", "e", "q", "u", "i", "r", "e", "m", "e", "n", "t", "s", ".", "t", "x", "t", " ", "f", "o", "u", "n", "d", " ", "i", "n", " ", "d", "i", "r", "e", "c", "t", "o", "r", "y">>)
    ELSE LET filePath == IF path.kind # "directory" THEN path
                         ELSE IF HasFile(path, PackageJsonName)
                         THEN FileOf(path, PackageJsonName)
                         ELSE FileOf(path, RequirementsTxtName)
         IN  IF filePath.kind = "missing"
             THEN Throw(<<"F", "i", "l", "e", " ", "n", "o", "t", " ", "f", "o", "u", "n", "d", ":", " ">> \o filePath.basename)
             ELSE LET fileType == detectFileType(filePath)
                      parsed   == parseDependencyFile(filePath)
                  IN  IF fileType = "unknown"
                      THEN Throw(<<"U", "n", "s", "u", "p", "p", "o", "r", "t", "e", "d", " ", "f", "i", "l", "e", " ", "t", "y", "p", "e", ":", " ">> \o filePath.basename)
                      ELSE IF ~parsed.ok THEN parsed
                      ELSE Return([file   |-> filePath.basename,
                                   source |-> fileType,
                                   dependencies |->
                                     IF ~opts.dev /\ fileType = "npm"
                                     THEN SelectSeq(parsed.value, LAMBDA d : ~d.isDev)
                                     ELSE parsed.value])

\* the registry fetch of the loop body, by the source of the dependency
fetchMetadata(dep, response) ==
    IF dep.source = "npm" THEN fetchNpmMetadata(dep.name, response)
    ELSE IF dep.source = "pypi" THEN fetchPyPIMetadata(dep.name, response)
    ELSE Throw(<<"U", "n", "s", "u", "p", "p", "o", "r", "t", "e", "d", " ", "s", "o", "u", "r", "c", "e", ":", " ">>)

\* the catch block recording no message
Failed_NoMessage(dep, message) ==
    [dependency |-> dep, metadata |-> Null, health |-> Null, error |-> Undefined]

\* the record of the try block, and the record of the catch block
Analysed(dep, md, h) ==
    [dependency |-> dep, metadata |-> md, health |-> h, error |-> Undefined]

Failed(dep, message) ==
    [dependency |-> dep, metadata |-> Null, health |-> Null, error |-> message]

\* a.health?.overall ?? null
OverallOf(a) == IF a.health = Null THEN Null ELSE Num(a.health.overall)

\* analyses.filter((a) => getRiskLevel(a.health?.overall ?? null) === level).length
RiskCount(as, level) ==
    Cardinality({k \in 1..Len(as) : getRiskLevel(OverallOf(as[k])) = level})

\* failed counted among the records that have metadata only
Summary_FailedByHealth(as) ==
    [total    |-> Len(as),
     healthy  |-> RiskCount(as, "healthy"),
     warning  |-> RiskCount(as, "warning"),
     critical |-> RiskCount(as, "critical"),
     failed   |-> Cardinality({k \in 1..Len(as) :
                                 as[k].health = Null /\ as[k].metadata # Null})]

\* Calculate summary
Summary(as) ==
    [total    |-> Len(as),
     healthy  |-> RiskCount(as, "healthy"),
     warning  |-> RiskCount(as, "warning"),
     critical |-> RiskCount(as, "critical"),
     failed   |-> Cardinality({k \in 1..Len(as) : as[k].error # Undefined})]

IsInvalidDate(d) == d.type = "Date" /\ d.time = NaN

\* printJsonReport calls toISOString() of every publish date and every last
\* update that is not null; toISOString() of an Invalid Date raises a
\* RangeError
printJsonReportThrows(as) ==
    \E k \in 1..Len(as) :
        \/ as[k].metadata # Null /\ IsInvalidDate(as[k].metadata.lastPublished)
        \/ as[k].health # Null /\ IsInvalidDate(as[k].health.freshness.lastUpdate)

\* a missing health read as the score 0
BelowThreshold_CountsFailed(as, threshold) ==
    {k \in 1..Len(as) : as[k].health = Null \/ as[k].health.overall < threshold}

\* the dependencies the threshold test selects
BelowThreshold(as, threshold) ==
    {k \in 1..Len(as) : as[k].health # Null /\ as[k].health.overall < threshold}

(***************************************************************************)
(* The inputs of a scan                                                    *)
(***************************************************************************)
\* the largest number of dependencies in a manifest
MaxDeps == 2

\* the names of the packages k..n of a manifest: "a", "b", ...
Names(k, n) == [j \in 1..(n - k + 1) |-> <<LowerCase[k + j - 1]>>]

\* a manifest with nd dependencies and dd dev dependencies
Content(nd, dd) ==
    [parses |-> TRUE, dependencies |-> Names(1, nd),
     devDependencies |-> Names(nd + 1, nd + dd)]

\* a file JSON.parse rejects, and in which no line is a requirement
NoContent == [parses |-> FALSE, dependencies |-> <<>>, devDependencies |-> <<>>]

File(basename, content) ==
    [kind |-> "file", basename |-> basename, content |-> content]

Missing(basename) == [kind |-> "missing", basename |-> basename]

Directory(files) == [kind |-> "directory", files |-> files]

\* package.json with every split of up to MaxDeps dependencies, a
\* requirements file of every length, files of other names, directories
\* with one manifest, both or none, and a path that does not exist
Paths ==
    {File(PackageJsonName, Content(n[1], n[2])) :
        n \in {m \in (0..MaxDeps) \X (0..MaxDeps) : m[1] + m[2] <= MaxDeps}}
    \cup {File(RequirementsTxtName, Content(nd, 0)) : nd \in 0..MaxDeps}
    \cup { File(PackageJsonName, NoContent),
           File(RequirementsTxtName, NoContent),
           File(<<"d", "e", "p", "s", ".", "t", "x", "t">>, Content(1, 0)),
           File(<<"P", "a", "c", "k", "a", "g", "e", ".", "J", "S", "O", "N">>, Content(1, 0)),
           File(<<"C", "a", "r", "g", "o", ".", "t", "o", "m", "l">>, Content(1, 0)),
           Missing(PackageJsonName),
           Directory({}),
           Directory({File(<<"R", "E", "A", "D", "M", "E", ".", "m", "d">>, Content(1, 0))}),
           Directory({File(PackageJsonName, Content(1, 1))}),
           Directory({File(RequirementsTxtName, Content(1, 0))}),
           Directory({File(PackageJsonName, Content(1, 0)),
                      File(RequirementsTxtName, Content(2, 0))}) }

Options(dev, github, json, threshold) ==
    [dev |-> dev, github |-> github, json |-> json, threshold |-> Str(threshold)]

\* the command lines: the defaults, every option alone, some together
OptionSets ==
    { Options(FALSE, TRUE, FALSE, <<"0">>),
      Options(TRUE, TRUE, FALSE, <<"0">>),
      Options(FALSE, FALSE, FALSE, <<"0">>),
      Options(FALSE, TRUE, TRUE, <<"0">>),
      Options(FALSE, TRUE, FALSE, <<"6", "0">>),
      Options(FALSE, TRUE, FALSE, <<"a", "b", "c">>),
      Options(FALSE, TRUE, FALSE, <<"-", "5">>),
      Options(TRUE, FALSE, TRUE, <<"9", "0">>),
      Options(TRUE, TRUE, FALSE, <<>>) }

NotGitHubUrl == Str(<<"h", "t", "t", "p", "s", ":", "/", "/", "g", "i", "t", "l", "a", "b", ".", "c", "o", "m", "/", "o", "/", "r">>)

\* the data of a registry answer: a well-kept package on GitHub, a package
\* of which nothing is known, a package with a publish time that is no
\* date and a repository elsewhere
RegistryData ==
    { [lastPublished |-> DateOf(Num(Now0)), maintainers |-> 3,
       license |-> Str(<<"M", "I", "T">>), repositoryUrl |-> SomeUrl],
      [lastPublished |-> Null, maintainers |-> 0,
       license |-> Str(<<>>), repositoryUrl |-> Undefined],
      [lastPublished |-> InvalidDate, maintainers |-> 1,
       license |-> Str(<<"G", "P", "L", "-", "2", ".", "0">>),
       repositoryUrl |-> NotGitHubUrl] }

RegistryResponses ==
    {[status |-> 200, data |-> d] : d \in RegistryData}
    \cup { [status |-> 404],
           [status |-> 0, message |-> <<"t", "i", "m", "e", "o", "u", "t", " ", "o", "f", " ", "1", "0", "0", "0", "0", "m", "s", " ", "e", "x", "c", "e", "e", "d", "e", "d">>] }

\* the answers of the three GitHub requests; the commits and contributors
\* requests are made only after the repository request succeeded
CommitsResponses ==
    { [status |-> 200, data |-> <<DateOf(Num(Now0 - 400 * SecPerDay))>>],
      [status |-> 409] }

ContributorsResponses ==
    { [status |-> 200, link |-> [type |-> "object", last |-> Str(<<"5">>)], length |-> 1],
      [status |-> 403] }

GitHubResponses ==
    {[repo |-> [status |-> 200, archived |-> Bool(FALSE)], commits |-> c, contributors |-> n] :
        c \in CommitsResponses, n \in ContributorsResponses}
    \cup {[repo |-> [status |-> 200, archived |-> Bool(TRUE)], commits |-> c,
           contributors |-> [status |-> 200, link |-> Null, length |-> 1]] :
            c \in CommitsResponses}
    \cup {[repo |-> [status |-> st], commits |-> Null, contributors |-> Null] :
            st \in {403, 404, 0}}

\* no request is made for a URL that is no GitHub URL
NoRequest == [repo |-> Null, commits |-> Null, contributors |-> Null]

(***************************************************************************)
(* The scan as a state machine.  pc is the place in runScan: "start",      *)
(* then per dependency "fetch", "github", "score" and "sleep", then        *)
(* "summary", "report" and "threshold", and "exit" when the process has    *)
(* ended.  calls logs every fetch with the index of its dependency and     *)
(* the answer it got; output lists what was printed.                       *)
(***************************************************************************)
InitScanOf(paths, optionSets) ==
    /\ inputPath \in paths
    /\ options \in optionSets
    /\ pc = "start"
    /\ metadata = Null /\ githubHealth = Null /\ health = Null
    /\ now = DateOf(Num(Now0))
    /\ dependencies = <<>> /\ index = 0 /\ analyses = <<>> /\ summary = Null
    /\ calls = <<>> /\ output = <<>> /\ exitCode = Null
    /\ NoRisk

InitScan == InitScanOf(Paths, OptionSets)

Stderr(message) == [stream |-> "stderr", text |-> message]

Stdout(format) == [stream |-> "stdout", report |-> format]

\* the catch of the command handler: console.error and process.exit(1)
Fatal(message) ==
    /\ output' = Append(output, Stderr(message))
    /\ exitCode' = Num(1)
    /\ pc' = "exit"

\* the catch of the loop body leaving the loop
FailDependency_Abort(message) ==
    /\ analyses' = Append(analyses, Failed(dependencies[index + 1], message))
    /\ metadata' = Null /\ githubHealth' = Null
    /\ pc' = "summary"

\* the catch of the loop body
FailDependency(message) ==
    /\ analyses' = Append(analyses, Failed(dependencies[index + 1], message))
    /\ metadata' = Null /\ githubHealth' = Null
    /\ pc' = "sleep"

\* runScan, lines 57 to 98
Start ==
    /\ pc = "start"
    /\ LET manifest == LoadManifest(inputPath, options)
       IN  IF manifest.ok
           THEN /\ dependencies' = manifest.value.dependencies
                /\ pc' = IF Len(manifest.value.dependencies) > 0 THEN "fetch" ELSE "summary"
                /\ UNCHANGED <<output, exitCode>>
           ELSE /\ Fatal(manifest.message)
                /\ UNCHANGED dependencies
    /\ UNCHANGED <<metadata, githubHealth, now, health, riskVars, inputPath, options,
                   index, analyses, summary, calls>>

\* the registry fetch of dependencies[i]
FetchRegistry ==
    /\ pc = "fetch"
    /\ \E response \in RegistryResponses :
          LET dep == dependencies[index + 1]
              r   == fetchMetadata(dep, response)
          IN  /\ calls' = Append(calls, [fn |-> "fetchMetadata", index |-> index,
                                          response |-> response])
              /\ IF r.ok
                 THEN /\ metadata' = r.value
                      /\ githubHealth' = Null
                      /\ pc' = "github"
                      /\ UNCHANGED analyses
                 ELSE FailDependency(r.message)
    /\ UNCHANGED <<now, health, riskVars, inputPath, options, dependencies, index,
                   summary, output, exitCode>>

\* the repository health fetch, when it is enabled and there is a URL
FetchGitHub ==
    /\ pc = "github"
    /\ IF options.github /\ ~Falsy(metadata.repositoryUrl)
       THEN \E response \in IF parseGitHubUrl(metadata.repositoryUrl) = Null
                             THEN {NoRequest} ELSE GitHubResponses :
              LET r == fetchGitHubRepoHealth(metadata.repositoryUrl, response)
              IN  /\ calls' = Append(calls, [fn |-> "fetchGitHubRepoHealth",
                                              index |-> index, response |-> response])
                  /\ IF r.ok
                     THEN /\ githubHealth' = r.value
                          /\ pc' = "score"
                          /\ UNCHANGED <<metadata, analyses>>
                     ELSE FailDependency(r.message)
       ELSE /\ pc' = "score"
            /\ UNCHANGED <<metadata, githubHealth, analyses, calls>>
    /\ UNCHANGED <<now, health, riskVars, inputPath, options, dependencies, index,
                   summary, output, exitCode>>

\* calculateHealthScore and analyses.push
ScoreDependency ==
    /\ pc = "score"
    /\ IF calculateHealthScoreThrows(metadata, githubHealth)
       THEN FailDependency(Str(<<"T", "y", "p", "e", "E", "r", "r", "o", "r">>))
       ELSE /\ analyses' = Append(analyses,
                                  Analysed(dependencies[index + 1], metadata,
                                           calculateHealthScore(metadata, githubHealth, now)))
            /\ metadata' = Null /\ githubHealth' = Null
            /\ pc' = "sleep"
    /\ UNCHANGED <<now, health, riskVars, inputPath, options, dependencies, index,
                   summary, calls, output, exitCode>>

\* a dependency tried again as long as its record holds an error
NextIndex_Retry(as, k) == IF as[Len(as)].error # Undefined THEN k ELSE k + 1

\* i++ of the loop
NextIndex(as, k) == k + 1

\* await sleep(100), then the next dependency or the end of the loop
Sleep ==
    /\ pc = "sleep"
    /\ index' = NextIndex(analyses, index)
    /\ pc' = IF index' < Len(dependencies) THEN "fetch" ELSE "summary"
    /\ UNCHANGED <<metadata, githubHealth, now, health, riskVars, inputPath, options,
                   dependencies, analyses, summary, calls, output, exitCode>>

Summarize ==
    /\ pc = "summary"
    /\ summary' = Summary(analyses)
    /\ pc' = "report"
    /\ UNCHANGED <<metadata, githubHealth, now, health, riskVars, inputPath, options,
                   dependencies, index, analyses, calls, output, exitCode>>

\* printJsonReport or printReport
Report ==
    /\ pc = "report"
    /\ IF options.json /\ printJsonReportThrows(analyses)
       THEN Fatal(Str(<<"I", "n", "v", "a", "l", "i", "d", " ", "t", "i", "m", "e", " ", "v", "a", "l", "u", "e">>))
       ELSE /\ output' = Append(output, Stdout(IF options.json THEN "json" ELSE "table"))
            /\ pc' = "threshold"
            /\ UNCHANGED exitCode
    /\ UNCHANGED <<metadata, githubHealth, now, health, riskVars, inputPath, options,
                   dependencies, index, analyses, summary, calls>>

\* Exit with error code if threshold is set and any package is below it
Threshold ==
    /\ pc = "threshold"
    /\ LET threshold == parseInt(Or(options.threshold, Str(<<"0">>)))
       IN  IF Gt(threshold, 0) /\ BelowThreshold(analyses, threshold.value) # {}
           THEN Fatal(Str(<<"p", "a", "c", "k", "a", "g", "e", "s", " ", "b", "e", "l", "o", "w", " ", "t", "h", "r", "e", "s", "h", "o", "l", "d">>))
           ELSE /\ exitCode' = Num(0)
                /\ pc' = "exit"
                /\ UNCHANGED output
    /\ UNCHANGED <<metadata, githubHealth, now, health, riskVars, inputPath, options,
                   dependencies, index, analyses, summary, calls>>

NextScan ==
    \/ Start
    \/ FetchRegistry
    \/ FetchGitHub
    \/ ScoreDependency
    \/ Sleep
    \/ Summarize
    \/ Report
    \/ Threshold

SpecScan == InitScan /\ [][NextScan]_vars

(***************************************************************************)
(* Properties of the scan                                                  *)
(***************************************************************************)
\* the fetches made for the dependency at position k of the list
CallsOf(fn, k) == {c \in 1..Len(calls) : calls[c].fn = fn /\ calls[c].index = k - 1}

AnswerOf(fn, k) == calls[CHOOSE c \in CallsOf(fn, k) : TRUE].response

\* the record of the dependency at position k, from the answers to its own
\* fetches and nothing else
C13_RecordOf(k) ==
    LET dep == dependencies[k]
        r   == fetchMetadata(dep, AnswerOf("fetchMetadata", k))
        gh  == IF CallsOf("fetchGitHubRepoHealth", k) = {} THEN Null
               ELSE fetchGitHubRepoHealth(r.value.repositoryUrl,
                                          AnswerOf("fetchGitHubRepoHealth", k)).value
    IN  IF ~r.ok THEN Failed(dep, r.message)
        ELSE Analysed(dep, r.value, calculateHealthScore(r.value, gh, now))

\* the record just appended is the one the dependency's own answers give
C13_Recorded ==
    pc = "sleep" =>
        LET k == Len(analyses)
        IN  /\ k = index + 1
            /\ CallsOf("fetchMetadata", k) # {}
            /\ analyses[k] = C13_RecordOf(k)
            /\ (~fetchMetadata(dependencies[k], AnswerOf("fetchMetadata", k)).ok) =>
                  /\ analyses[k].error.type = "string"
                  /\ analyses[k].metadata = Null
                  /\ analyses[k].health = Null

\* the loop is left only with a record for every dependency
C13_Continues ==
    /\ Len(analyses) <= Len(dependencies)
    /\ pc \in {"summary", "report", "threshold"} => Len(analyses) = Len(dependencies)

\* no step changes or removes a record that is in the list
C13_Untouched ==
    /\ Len(analyses') >= Len(analyses)
    /\ \A k \in 1..Len(analyses) : analyses'[k] = analyses[k]

\* C13: a dependency whose registry fetch (or a later step) throws gets
\* exactly one record, with the error message and with metadata and health
\* null, and the loop goes on: every dependency is fetched and gets the
\* record its own answers give, whatever happened to the others, no record
\* is changed afterwards, and the loop ends only with one record for every
\* dependency.
C13_FailureIsolated ==
    /\ [](C13_Recorded /\ C13_Continues)
    /\ [][C13_Untouched]_vars

\* C13, its case: the first of two dependencies failed, the second was
\* scored
C13_Witness ==
    /\ Len(analyses) = 2
    /\ analyses[1].error # Undefined
    /\ analyses[1].metadata = Null /\ analyses[1].health = Null
    /\ analyses[2].error = Undefined
    /\ analyses[2].health # Null

\* the registry fetch of the dependency at position k threw
RegistryThrew(k) ==
    /\ CallsOf("fetchMetadata", k) # {}
    /\ ~fetchMetadata(dependencies[k], AnswerOf("fetchMetadata", k)).ok

\* the positions of the records with an error, and of those whose score
\* lies between two bounds
C14_WithError == {k \in 1..Len(analyses) : analyses[k].error # Undefined}

C14_Scored(low, high) ==
    {k \in 1..Len(analyses) \ C14_WithError :
        analyses[k].health # Null /\ analyses[k].health.overall \in low..high}

\* C14: in the summary, failed is the number of records with an error;
\* every dependency whose registry fetch threw is one of them, and
\* healthy, warning and critical count none of them.
C14_FailedTally ==
    summary # Null =>
        /\ \A k \in 1..Len(dependencies) : RegistryThrew(k) => k \in C14_WithError
        /\ summary.failed = Cardinality(C14_WithError)
        /\ summary.healthy = Cardinality(C14_Scored(80, 100))
        /\ summary.warning = Cardinality(C14_Scored(50, 79))
        /\ summary.critical = Cardinality(C14_Scored(0, 49))

\* C14, its case: of two dependencies one was not found, one is healthy
C14_Witness ==
    /\ summary # Null
    /\ \E k \in 1..Len(dependencies) : RegistryThrew(k)
    /\ summary.total = 2 /\ summary.failed = 1 /\ summary.healthy = 1

\* the answer to the repository health fetch of the dependency in hand
C15_Answer == AnswerOf("fetchGitHubRepoHealth", index + 1)

\* C15: a failing repository health fetch never becomes an error of the
\* dependency.  fetchGitHubRepoHealth returns null for a URL that is no
\* GitHub URL and for a repository request that fails (403, 404, anything
\* else); when only the commits or the contributors request fails, the
\* result has lastCommitDate null or contributorCount 0; and every
\* dependency whose registry fetch succeeded has a record with a health
\* score and no error.
C15_RepoFailureSilent ==
    /\ (pc = "score" /\ CallsOf("fetchGitHubRepoHealth", index + 1) # {}) =>
          /\ parseGitHubUrl(metadata.repositoryUrl) = Null => githubHealth = Null
          /\ (C15_Answer # NoRequest /\ C15_Answer.repo.status # 200) => githubHealth = Null
          /\ (C15_Answer # NoRequest /\ C15_Answer.repo.status = 200) =>
                /\ IsObject(githubHealth)
                /\ C15_Answer.commits.status # 200 => githubHealth.lastCommitDate = Null
                /\ C15_Answer.contributors.status # 200 => githubHealth.contributorCount = Num(0)
    /\ \A k \in 1..Len(analyses) :
          ~RegistryThrew(k) => analyses[k].health # Null /\ analyses[k].error = Undefined

\* C15, its case: the repository request was rate limited and the
\* dependency was scored all the same
C15_Witness ==
    \E k \in 1..Len(analyses) :
        /\ CallsOf("fetchGitHubRepoHealth", k) # {}
        /\ AnswerOf("fetchGitHubRepoHealth", k).repo = [status |-> 403]
        /\ analyses[k].health # Null
        /\ analyses[k].error = Undefined

\* the log and the list follow the manifest
C16_InOrder ==
    /\ \A c \in 1..Len(calls) : calls[c].index < Len(dependencies)
    /\ \A c, d \in 1..Len(calls) : c < d => calls[c].index <= calls[d].index
    /\ \A k \in 1..Len(dependencies) :
          /\ Cardinality(CallsOf("fetchMetadata", k)) <= 1
          /\ Cardinality(CallsOf("fetchGitHubRepoHealth", k)) <= 1
          /\ k <= Len(analyses) => Cardinality(CallsOf("fetchMetadata", k)) = 1
          /\ \A g \in CallsOf("fetchGitHubRepoHealth", k) :
                \E c \in CallsOf("fetchMetadata", k) : c < g
    /\ Len(analyses) <= Len(dependencies)
    /\ \A k \in 1..Len(analyses) : analyses[k].dependency = dependencies[k]
    /\ pc \in {"summary", "report", "threshold"} =>
          /\ Len(analyses) = Len(dependencies)
          /\ index = Len(dependencies)

\* a fetch for the dependency i is made when exactly the records of the
\* dependencies before it are in the list
C16_OneAtATime ==
    calls' # calls =>
        /\ Len(calls') = Len(calls) + 1
        /\ SubSeq(calls', 1, Len(calls)) = calls
        /\ calls'[Len(calls')].index = Len(analyses)
        /\ calls'[Len(calls')].index = index

\* C16: the dependencies are processed one after the other in manifest
\* order, without overlap and without retries: a fetch for a dependency is
\* made only when the records of all dependencies before it are in the
\* list, the registry fetch of a dependency is made exactly once and its
\* repository health fetch at most once, and the loop ends with exactly
\* one record per dependency, in the order of the parsed list.
C16_Sequential ==
    /\ []C16_InOrder
    /\ [][C16_OneAtATime]_vars

\* C16, its case: two dependencies, each with a registry fetch and a
\* repository health fetch, and the scan has ended
C16_Witness ==
    /\ pc = "exit"
    /\ Len(analyses) = 2
    /\ Len(calls) = 4
    /\ calls[3].fn = "fetchMetadata" /\ calls[3].index = 1

\* the manifest failures: the path does not exist, the directory holds
\* neither package.json nor requirements.txt, the file is neither
\* package.json nor a .txt file, the package.json is no JSON
C17_NotFound == inputPath.kind = "missing"

C17_NoManifest ==
    /\ inputPath.kind = "directory"
    /\ \A f \in inputPath.files : f.basename \notin {PackageJsonName, RequirementsTxtName}

C17_Manifest ==
    IF inputPath.kind = "directory"
    THEN IF HasFile(inputPath, PackageJsonName) THEN FileOf(inputPath, PackageJsonName)
         ELSE FileOf(inputPath, RequirementsTxtName)
    ELSE inputPath

C17_Unsupported ==
    /\ ~C17_NotFound /\ ~C17_NoManifest
    /\ toLowerCase(C17_Manifest.basename) # PackageJsonName
    /\ ~endsWith(toLowerCase(C17_Manifest.basename), TxtSuffix)

C17_Unparsable ==
    /\ ~C17_NotFound /\ ~C17_NoManifest
    /\ toLowerCase(C17_Manifest.basename) = PackageJsonName
    /\ ~C17_Manifest.content.parses

C17_Failure == C17_NotFound \/ C17_NoManifest \/ C17_Unsupported \/ C17_Unparsable

\* C17: a manifest failure (path not found, directory without
\* package.json or requirements.txt, unsupported file type, package.json
\* that does not parse) is fatal: the scan ends at once with exit status
\* 1, an error on stderr, no fetch made, no summary and no report.
C17_ManifestFailureFatal ==
    (C17_Failure /\ pc # "start") =>
        /\ pc = "exit"
        /\ exitCode = Num(1)
        /\ calls = <<>>
        /\ analyses = <<>>
        /\ summary = Null
        /\ Len(output) = 1 /\ output[1].stream = "stderr"

\* C17, its case: a package.json that is no JSON
C17_Witness ==
    /\ C17_Unparsable
    /\ pc = "exit" /\ exitCode = Num(1) /\ calls = <<>> /\ summary = Null

\* the report was printed
Rendered == \E o \in 1..Len(output) : output[o].stream = "stdout"

\* the value of --threshold
C18_Threshold ==
    IF options.threshold.chars = <<>> THEN Num(0) ELSE parseInt(options.threshold)

\* C18: once the report is printed, the process ends with status 1 exactly
\* when the parsed threshold is above 0 and some dependency that has a
\* health score has an overall score below it, and with status 0
\* otherwise; a failed dependency never counts, and a threshold of 0
\* never fails.
C18_ThresholdGate ==
    (pc = "exit" /\ Rendered) =>
        /\ exitCode \in {Num(0), Num(1)}
        /\ (exitCode = Num(1)) <=>
              /\ C18_Threshold.type = "number"
              /\ C18_Threshold.value > 0
              /\ \E k \in 1..Len(analyses) :
                    /\ analyses[k].health # Null
                    /\ analyses[k].health.overall < C18_Threshold.value

\* C18, its case: --threshold 60, one dependency failed, one scored 32
C18_Witness ==
    /\ pc = "exit" /\ Rendered
    /\ options.threshold = Str(<<"6", "0">>)
    /\ exitCode = Num(1)
    /\ \E k \in 1..Len(analyses) : analyses[k].error # Undefined
    /\ \E k \in 1..Len(analyses) : analyses[k].health # Null /\ analyses[k].health.overall = 32

\* C20: every record has either a health score and no error or an error
\* and no health score, and the four tallies of the summary add up to the
\* number of records: total = healthy + warning + critical + failed.
C20_TalliesPartition ==
    /\ \A k \in 1..Len(analyses) :
          \/ analyses[k].health # Null /\ analyses[k].error = Undefined
          \/ analyses[k].health = Null /\ analyses[k].error # Undefined
    /\ summary # Null =>
          /\ summary.total = Len(analyses)
          /\ summary.total = summary.healthy + summary.warning
                               + summary.critical + summary.failed

\* C20, its case: a summary over a failed and a scored dependency
C20_Witness ==
    /\ summary # Null
    /\ summary.total = 2 /\ summary.failed = 1 /\ summary.critical = 1
    /\ summary.healthy = 0 /\ summary.warning = 0

\* Every step of the scan is taken in the end: the synchronous code runs
\* on, every request has a timeout of 10 seconds and so answers or fails,
\* and sleep(100) ends.  Every step of NextScan moves pc, and a step is
\* possible exactly when pc is not "exit", so the weak fairness of the scan
\* is the weak fairness of pc moving on.
Places ==
    {"start", "fetch", "github", "score", "sleep", "summary", "report",
     "threshold", "exit"}

Advance == pc # "exit" /\ pc' \in Places \ {pc}

InitScanFair ==
    InitScanOf({File(PackageJsonName, Content(1, 1)),
                File(RequirementsTxtName, Content(MaxDeps, 0))},
               {Options(TRUE, TRUE, FALSE, <<"0">>),
                Options(FALSE, TRUE, TRUE, <<"6", "0">>)})

SpecScanFair == InitScanFair /\ [][NextScan]_vars /\ WF_pc(Advance)

\* C19: when every fetch returns or fails in the end, a scan of a manifest
\* that was loaded finishes the loop and prints the report.
C19_ReportRendered ==
    (pc = "start" /\ LoadManifest(inputPath, options).ok) ~> Rendered

\* C21: a dependency whose repository is archived is never classified
\* healthy: whenever calculateHealthScore is called with repository health
\* whose isArchived is true, getRiskLevel of the overall score is "warning"
\* or "critical", that is, the overall score is below 80.
C21_ArchivedNeverHealthy ==
    (Returned /\ IsObject(githubHealth) /\ githubHealth.isArchived.value)
    => /\ getRiskLevel(Num(health.overall)) \in {"warning", "critical"}
       /\ health.overall < 80

====
